---- MODULE Spec2Model ----
(***************************************************************************)
(* Flight SQL server session middleware.                                   *)
(*                                                                         *)
(* Model of cpp/src/arrow/flight/sql/server_session_middleware.cc: the     *)
(* cookie parser, the middleware factory with its session store, and the   *)
(* per-call middleware.                                                    *)
(*                                                                         *)
(* A string is the sequence of its characters, each a one-character        *)
(* string; the empty string is << >>.  Positions are 0-based as in the     *)
(* code.                                                                   *)
(***************************************************************************)
EXTENDS Integers, Sequences, FiniteSets, TLC

\* ---------------------------------------------------------------- bounds
\* Number of concurrent RPC calls.
NCalls == 2
\* Number of identifiers the generator can hand out.
NIds == 2
\* Longest header value given to the parser on its own.
MaxLen == 4
\* Number of session option operations one call makes.
MaxOps == 3

\* ------------------------------------------------------------- constants
\* std::string::npos, the largest size_t; here the largest integer.
npos == 2147483647

kSessionCookieName ==
  <<"a", "r", "r", "o", "w", "_", "f", "l", "i", "g", "h", "t", "_",
    "s", "e", "s", "s", "i", "o", "n", "_", "i", "d">>
list_sep == <<";", " ">>
pair_sep == <<"=">>
pair_sep_len == Len(pair_sep)

Min2(a, b) == IF a < b THEN a ELSE b

\* ------------------------------------------------------ string primitives
\* s.find(pat, pos): first position >= pos where pat occurs, else npos.
Find(s, pat, pos) ==
  LET hits == {i \in pos..(Len(s) - Len(pat)) :
                 \A j \in 1..Len(pat) : s[i + j] = pat[j]}
  IN IF hits = {} THEN npos
     ELSE CHOOSE i \in hits : \A k \in hits : i <= k

\* s.substr(pos, n): at most n characters from pos (pos <= size).
Substr(s, pos, n) ==
  LET rcount == Min2(n, Len(s) - pos)
  IN SubSeq(s, pos + 1, pos + rcount)

\* ------------------------------------------------------ ParseCookieString
\* One pass through the body of the while loop, from the loop state
\* st = [cur, result] to the loop state at the end of the body.
ParseIter(s, st) ==
  LET end == Find(s, list_sep, st.cur)
      len == IF end = npos THEN npos ELSE end - st.cur
      cur == IF end = npos THEN Len(s) ELSE end
      tok == Substr(s, cur, len)
      val_pos == Find(tok, pair_sep, 0)
  IN [cur |-> cur,
      result |-> IF val_pos = npos
                   THEN st.result
                   ELSE Append(st.result,
                               <<Substr(tok, 0, val_pos),
                                 Substr(tok, val_pos + pair_sep_len, npos)>>)]

\* The loop run to its end.  The loop state decides everything that
\* follows, so a pass that leaves it unchanged while cur < s.length() is a
\* loop that never exits: returns = FALSE.
RECURSIVE ParseLoop(_, _)
ParseLoop(s, st) ==
  IF ~(st.cur < Len(s)) THEN [returns |-> TRUE, result |-> st.result]
  ELSE LET nx == ParseIter(s, st)
       IN IF nx = st THEN [returns |-> FALSE, result |-> st.result]
          ELSE ParseLoop(s, nx)

ParseCookieString(s) == ParseLoop(s, [cur |-> 0, result |-> << >>])

\* ----------------------------------------------------------- the calls
Calls == 1..NCalls

\* A null std::shared_ptr<FlightSqlSession>; sessions are 1, 2, ...
Null == 0

\* Identifiers uuid_generator_ can produce (printable, no "=" or ";").
IdDigits == <<"1", "2", "3", "4", "5", "6">>
GenIds == {<<"i", "d", IdDigits[n]>> : n \in 1..NIds}

\* Header values a client sends under the name "cookie".
SessionCookie(id) == kSessionCookieName \o pair_sep \o id
OtherCookie == <<"x", "=", "1">>
KnownId == <<"i", "d", IdDigits[1]>>
UnknownId ==
  <<"d", "o", "e", "s", "n", "o", "t", "e", "x", "i", "s", "t">>

\* The "cookie" entries of CallHeaders, in header order, of the calls a
\* client makes: no cookie header, the session cookie, and another cookie
\* followed by the session cookie in one header value, and two other
\* cookies in one header value.
HeaderCases ==
  { << >>,
    <<SessionCookie(KnownId)>>,
    <<OtherCookie \o list_sep \o SessionCookie(KnownId)>>,
    <<OtherCookie \o list_sep \o OtherCookie>> }

\* Header values for StartCall on its own: one pair, or two pairs joined
\* by the list separator.
HeaderValues ==
  { OtherCookie,
    SessionCookie(KnownId),
    SessionCookie(UnknownId),
    SessionCookie(<< >>),
    OtherCookie \o list_sep \o SessionCookie(KnownId),
    OtherCookie \o list_sep \o OtherCookie,
    SessionCookie(KnownId) \o list_sep \o SessionCookie(UnknownId) }

\* Up to two "cookie" entries.
StartCallInputs ==
  {<< >>} \cup {<<v>> : v \in HeaderValues}
          \cup {<<v, w>> : v \in HeaderValues, w \in HeaderValues}

VARIABLES
  \* ---- per call
  pc,                 \* where the call is in its life cycle
  incoming_headers,   \* the "cookie" header values of the call
  status,             \* Status returned by StartCall
  middleware,         \* whether StartCall has set *middleware
  session_,           \* ServerSessionMiddlewareImpl::session_
  session_id_,        \* ServerSessionMiddlewareImpl::session_id_
  existing_session,   \* ServerSessionMiddlewareImpl::existing_session
  add_call_headers,   \* headers added to the response by SendingHeaders
  ret,                \* what the last GetSession returned
  session_id,         \* StartCall's local session_id
  session,            \* GetNewSession's local session
  \* ---- the factory
  session_store_,     \* identifier -> session
  session_store_lock_,\* [writer, readers] of the std::shared_mutex
  uuid_generator_,    \* identifiers produced so far
  \* ---- the sessions
  map_,               \* session -> FlightSqlSession::map_
  map_lock_,          \* session -> [writer, readers] of its map_lock_
  \* ---- session option calls of the handler, per call
  op,                 \* the option call under way, or the last one
  nops,               \* number of option calls completed
  opt_ret,            \* what the last GetSessionOption returned
  \* ---- ParseCookieString run on its own
  parse_s, parse_st, parse_pc,
  \* ---- ToProto and FromProto of SessionOptionValue run on their own
  opt_value,          \* the SessionOptionValue given to ToProto
  pb_val,             \* the pb::SessionOptionValue message
  codec_ret,          \* the Result<SessionOptionValue> of FromProto
  codec_pc

callVars == <<pc, incoming_headers, status, middleware, session_, session_id_,
              existing_session, add_call_headers, ret, session_id, session>>
factoryVars == <<session_store_, session_store_lock_, uuid_generator_>>
parseVars == <<parse_s, parse_st, parse_pc>>
optVars == <<op, nops, opt_ret>>
codecVars == <<opt_value, pb_val, codec_ret, codec_pc>>
vars ==
  <<callVars, factoryVars, map_, map_lock_, optVars, parseVars, codecVars>>

NoRet == [op |-> "none", session |-> Null]
Unlocked == [writer |-> 0, readers |-> {}]
ParseStart == [cur |-> 0, result |-> << >>]
\* A SessionOptionValue: the alternative held (kind) and its content; the
\* fields of the alternatives not held stay at their defaults.
Value(kind, str, list, num, flag) ==
  [kind |-> kind, str |-> str, list |-> list, num |-> num, flag |-> flag]
\* std::nullopt, and the value of an option call that carries none.
nullopt == Value("nullopt", << >>, << >>, 0, FALSE)
NoOp == [kind |-> "none", k |-> "", v |-> nullopt]

\* -------------------------------------- SessionOptionValue on the wire
\* A default pb::SessionOptionValue: no alternative of the oneof
\* option_value set, every field at its default.
PbDefault ==
  [option_value_case |-> "OPTION_VALUE_NOT_SET",
   string_value |-> << >>, bool_value |-> FALSE,
   int32_value |-> 0, int64_value |-> 0,
   float_value |-> 0, double_value |-> 0,
   string_list_value |-> << >>]

\* The repeated field after add_values(s) for each s of v, in order.
RECURSIVE AddValues(_, _)
AddValues(values, v) ==
  IF v = << >> THEN values
  ELSE AddValues(Append(values, Head(v)), Tail(v))

\* ToProto: std::visit sets the field of the alternative val holds, which
\* selects the oneof case; mutable_string_list_value() selects its case
\* before any value is added.
ToProto(val) ==
  CASE val.kind = "string" ->
         [PbDefault EXCEPT !.option_value_case = "kStringValue",
                           !.string_value = val.str]
    [] val.kind = "bool" ->
         [PbDefault EXCEPT !.option_value_case = "kBoolValue",
                           !.bool_value = val.flag]
    [] val.kind = "int32" ->
         [PbDefault EXCEPT !.option_value_case = "kInt32Value",
                           !.int32_value = val.num]
    [] val.kind = "int64" ->
         [PbDefault EXCEPT !.option_value_case = "kInt64Value",
                           !.int64_value = val.num]
    [] val.kind = "float" ->
         [PbDefault EXCEPT !.option_value_case = "kFloatValue",
                           !.float_value = val.num]
    [] val.kind = "double" ->
         [PbDefault EXCEPT !.option_value_case = "kDoubleValue",
                           !.double_value = val.num]
    [] val.kind = "string_list" ->
         [PbDefault EXCEPT !.option_value_case = "kStringListValue",
                           !.string_list_value = AddValues(@, val.list)]

\* A decoder that reads every message as a string.
FromProtoAsString(pb) ==
  [ok |-> TRUE, val |-> Value("string", pb.string_value, << >>, 0, FALSE)]

\* FromProto: the switch on option_value_case().  An unset oneof returns
\* Status::Invalid; each set case assigns its field to val.
FromProto(pb) ==
  CASE pb.option_value_case = "OPTION_VALUE_NOT_SET" ->
         [ok |-> FALSE, val |-> nullopt]
    [] pb.option_value_case = "kStringValue" ->
         [ok |-> TRUE,
          val |-> Value("string", pb.string_value, << >>, 0, FALSE)]
    [] pb.option_value_case = "kBoolValue" ->
         [ok |-> TRUE,
          val |-> Value("bool", << >>, << >>, 0, pb.bool_value)]
    [] pb.option_value_case = "kInt32Value" ->
         [ok |-> TRUE,
          val |-> Value("int32", << >>, << >>, pb.int32_value, FALSE)]
    [] pb.option_value_case = "kInt64Value" ->
         [ok |-> TRUE,
          val |-> Value("int64", << >>, << >>, pb.int64_value, FALSE)]
    [] pb.option_value_case = "kFloatValue" ->
         [ok |-> TRUE,
          val |-> Value("float", << >>, << >>, pb.float_value, FALSE)]
    [] pb.option_value_case = "kDoubleValue" ->
         [ok |-> TRUE,
          val |-> Value("double", << >>, << >>, pb.double_value, FALSE)]
    [] pb.option_value_case = "kStringListValue" ->
         [ok |-> TRUE,
          val |-> Value("string_list", << >>,
                        AddValues(<< >>, pb.string_list_value), 0, FALSE)]

\* Neither function has been called.
NoResult == [ok |-> FALSE, val |-> nullopt]
CodecIdle ==
  /\ opt_value = nullopt
  /\ pb_val = PbDefault
  /\ codec_ret = NoResult
  /\ codec_pc = "idle"

Init ==
  /\ pc = [c \in Calls |-> "idle"]
  /\ incoming_headers = [c \in Calls |-> << >>]
  /\ status = [c \in Calls |-> "none"]
  /\ middleware = [c \in Calls |-> FALSE]
  /\ session_ = [c \in Calls |-> Null]
  /\ session_id_ = [c \in Calls |-> << >>]
  /\ existing_session = [c \in Calls |-> FALSE]
  /\ add_call_headers = [c \in Calls |-> << >>]
  /\ ret = [c \in Calls |-> NoRet]
  /\ session_id = [c \in Calls |-> << >>]
  /\ session = [c \in Calls |-> Null]
  /\ session_store_ = << >>
  /\ session_store_lock_ = Unlocked
  /\ uuid_generator_ = {}
  /\ map_ = << >>
  /\ map_lock_ = << >>
  /\ op = [c \in Calls |-> NoOp]
  /\ nops = [c \in Calls |-> 0]
  /\ opt_ret = [c \in Calls |-> nullopt]
  /\ parse_s = << >>
  /\ parse_st = ParseStart
  /\ parse_pc = "idle"
  /\ CodecIdle

\* ------------------------------------------------------------ StartCall
\* The inner for loop over the cookies of one header value, carrying
\* StartCall's local session_id; invalid when the loop returns
\* Status::Invalid for an empty session cookie value.
RECURSIVE ScanCookies(_, _)
ScanCookies(cookies, sid) ==
  IF cookies = << >> THEN [invalid |-> FALSE, session_id |-> sid]
  ELSE LET cookie == Head(cookies)
       IN IF cookie[1] = kSessionCookieName
            THEN IF cookie[2] = << >>
                   THEN [invalid |-> TRUE, session_id |-> sid]
                   ELSE ScanCookies(Tail(cookies), cookie[2])
            ELSE ScanCookies(Tail(cookies), sid)

\* The outer for loop over the "cookie" header values.  outcome is
\* "spin" when ParseCookieString does not return, "invalid" when the loop
\* returns Status::Invalid, "scanned" when the loop is left (at its end or
\* by the break).
RECURSIVE ScanHeaders(_, _)
ScanHeaders(hdrs, sid) ==
  IF hdrs = << >> THEN [outcome |-> "scanned", session_id |-> sid]
  ELSE LET cookies == ParseCookieString(Head(hdrs))
       IN IF ~cookies.returns THEN [outcome |-> "spin", session_id |-> sid]
          ELSE LET r == ScanCookies(cookies.result, sid)
               IN IF r.invalid
                    THEN [outcome |-> "invalid", session_id |-> r.session_id]
                    ELSE IF r.session_id # << >>
                           THEN [outcome |-> "scanned",
                                 session_id |-> r.session_id]
                           ELSE ScanHeaders(Tail(hdrs), r.session_id)

\* StartCall.  The header scan works on the call's own data; the shared
\* lock on the store is held only for the lookup, so a call that found a
\* session cookie takes its step when no writer holds the lock.
StartCall(c, hdrs) ==
  /\ pc[c] = "idle"
  /\ incoming_headers' = [incoming_headers EXCEPT ![c] = hdrs]
  /\ LET r == ScanHeaders(hdrs, << >>)
     IN /\ session_id' = [session_id EXCEPT ![c] = r.session_id]
        /\ CASE r.outcome = "spin" ->
                  \* ParseCookieString never returns
                  /\ pc' = [pc EXCEPT ![c] = "spin"]
                  /\ UNCHANGED <<status, middleware, session_, session_id_,
                                 existing_session>>
             [] r.outcome = "invalid" ->
                  /\ pc' = [pc EXCEPT ![c] = "failed"]
                  /\ status' = [status EXCEPT ![c] = "Invalid"]
                  /\ UNCHANGED <<middleware, session_, session_id_,
                                 existing_session>>
             [] r.outcome = "scanned" /\ r.session_id = << >> ->
                  \* No cookie was found
                  /\ pc' = [pc EXCEPT ![c] = "handler"]
                  /\ status' = [status EXCEPT ![c] = "OK"]
                  /\ middleware' = [middleware EXCEPT ![c] = TRUE]
                  /\ UNCHANGED <<session_, session_id_, existing_session>>
             [] r.outcome = "scanned" /\ r.session_id # << >> ->
                  /\ session_store_lock_.writer = 0
                  /\ IF r.session_id \notin DOMAIN session_store_
                       THEN /\ pc' = [pc EXCEPT ![c] = "failed"]
                            /\ status' = [status EXCEPT ![c] = "Invalid"]
                            /\ UNCHANGED <<middleware, session_, session_id_,
                                           existing_session>>
                       ELSE /\ pc' = [pc EXCEPT ![c] = "handler"]
                            /\ status' = [status EXCEPT ![c] = "OK"]
                            /\ middleware' = [middleware EXCEPT ![c] = TRUE]
                            /\ session_' =
                                 [session_ EXCEPT
                                    ![c] = session_store_[r.session_id]]
                            /\ session_id_' =
                                 [session_id_ EXCEPT ![c] = r.session_id]
                            /\ existing_session' =
                                 [existing_session EXCEPT ![c] = TRUE]
  /\ UNCHANGED <<add_call_headers, ret, session, factoryVars, map_,
                 map_lock_, optVars, parseVars, codecVars>>

\* ------------------------------------------- ServerSessionMiddlewareImpl
\* The RPC framework drives a call in this order: StartCall, the handler
\* (HasSession and GetSession, any number of times), SendingHeaders,
\* CallCompleted.
\* HasSession is const: what it returns is HasSessionValue.
HasSessionValue(c) == session_[c] # Null

HasSession(c) ==
  /\ pc[c] = "handler"
  /\ UNCHANGED vars

\* GetSession without its test: a session is created on every call.
NeedsNewSessionAlways(c) == TRUE

\* if (!session_) of GetSession.
NeedsNewSession(c) == session_[c] = Null

\* An allocation that hands out an object already in use.
NewSessionReused ==
  IF DOMAIN map_ = {}
    THEN Cardinality(DOMAIN map_) + 1
    ELSE CHOOSE o \in DOMAIN map_ : TRUE

\* std::make_shared<FlightSqlSession>(): an object distinct from every
\* session allocated so far.
NewSession == Cardinality(DOMAIN map_) + 1

\* GetSession.  With a session held it returns it.  Without one it enters
\* GetNewSession, which up to its lock draws the identifier (one of the
\* set generated), stores it through the session_id pointer
\* (&session_id_) and allocates the session.
GetSessionWith(c, generated) ==
  /\ pc[c] = "handler"
  /\ IF NeedsNewSession(c)
       THEN \E new_id \in generated :
              LET obj == NewSession
              IN /\ uuid_generator_' = uuid_generator_ \cup {new_id}
                 /\ session_id_' = [session_id_ EXCEPT ![c] = new_id]
                 /\ session' = [session EXCEPT ![c] = obj]
                 /\ map_' = (obj :> << >>) @@ map_
                 /\ map_lock_' = (obj :> Unlocked) @@ map_lock_
                 /\ pc' = [pc EXCEPT ![c] = "gns_lock"]
                 /\ UNCHANGED ret
       ELSE /\ ret' = [ret EXCEPT ![c] = [op |-> "GetSession",
                                          session |-> session_[c]]]
            /\ UNCHANGED <<pc, session_id_, session, map_, map_lock_,
                           uuid_generator_>>
  /\ UNCHANGED <<incoming_headers, status, middleware, session_,
                 existing_session, add_call_headers, session_id,
                 session_store_, session_store_lock_, optVars,
                 parseVars, codecVars>>

\* GetSession with the generator of the factory: uuid_generator_() returns
\* an identifier it has not returned before.
GetSession(c) == GetSessionWith(c, GenIds \ uuid_generator_)

\* GetSession with a generator that may repeat an identifier.
GetSessionColliding(c) == GetSessionWith(c, GenIds)

\* std::unique_lock on session_store_lock_ acquired in GetNewSession.
GetNewSessionLock(c) ==
  /\ pc[c] = "gns_lock"
  /\ session_store_lock_ = Unlocked
  /\ session_store_lock_' = [session_store_lock_ EXCEPT !.writer = c]
  /\ pc' = [pc EXCEPT ![c] = "gns_cs"]
  /\ UNCHANGED <<incoming_headers, status, middleware, session_, session_id_,
                 existing_session, add_call_headers, ret, session_id, session,
                 session_store_, uuid_generator_, map_, map_lock_, optVars,
                 parseVars, codecVars>>

\* The store assigned as a whole: the entries of other calls are lost.
StoreInsertOnly(store, new_id, s) == (new_id :> s)

\* session_store_[new_id] = session.
StoreInsert(store, new_id, s) == (new_id :> s) @@ store

\* The insertion under the lock, the release, the return of GetNewSession
\* and the rest of GetSession: session_ is assigned and returned.
GetNewSessionInsert(c) ==
  /\ pc[c] = "gns_cs"
  /\ session_store_' = StoreInsert(session_store_, session_id_[c], session[c])
  /\ session_store_lock_' = [session_store_lock_ EXCEPT !.writer = 0]
  /\ session_' = [session_ EXCEPT ![c] = session[c]]
  /\ ret' = [ret EXCEPT ![c] = [op |-> "GetSession",
                                session |-> session[c]]]
  /\ pc' = [pc EXCEPT ![c] = "handler"]
  /\ UNCHANGED <<incoming_headers, status, middleware, session_id_,
                 existing_session, add_call_headers, session_id, session,
                 uuid_generator_, map_, map_lock_, optVars,
                 parseVars, codecVars>>

\* SendingHeaders without the test of existing_session.
AnnouncesSessionHeld(c) == session_[c] # Null

\* if (!existing_session && session_) of SendingHeaders.
AnnouncesSession(c) == ~existing_session[c] /\ session_[c] # Null

\* The set-cookie value without the cookie name.
SetCookieValueBare(c) == session_id_[c]

\* The value of the set-cookie header.
SetCookieValue(c) == kSessionCookieName \o <<"=">> \o session_id_[c]

SendingHeaders(c) ==
  /\ pc[c] = "handler"
  /\ add_call_headers' =
       [add_call_headers EXCEPT
          ![c] = IF AnnouncesSession(c)
                   THEN Append(@, <<"set-cookie", SetCookieValue(c)>>)
                   ELSE @]
  /\ pc' = [pc EXCEPT ![c] = "sent"]
  /\ UNCHANGED <<incoming_headers, status, middleware, session_, session_id_,
                 existing_session, ret, session_id, session, factoryVars,
                 map_, map_lock_, optVars, parseVars, codecVars>>

CallCompleted(c) ==
  /\ pc[c] = "sent"
  /\ pc' = [pc EXCEPT ![c] = "done"]
  /\ UNCHANGED <<incoming_headers, status, middleware, session_, session_id_,
                 existing_session, add_call_headers, ret, session_id, session,
                 factoryVars, map_, map_lock_, optVars,
                 parseVars, codecVars>>

\* The constructor for an existing session, called on its own with a
\* session of the store and its identifier (the arguments StartCall gives
\* it).
NewExistingSessionMiddleware(c, id) ==
  /\ pc[c] = "idle"
  /\ id \in DOMAIN session_store_
  /\ session_store_lock_.writer = 0
  /\ pc' = [pc EXCEPT ![c] = "handler"]
  /\ status' = [status EXCEPT ![c] = "OK"]
  /\ middleware' = [middleware EXCEPT ![c] = TRUE]
  /\ session_' = [session_ EXCEPT ![c] = session_store_[id]]
  /\ session_id_' = [session_id_ EXCEPT ![c] = id]
  /\ existing_session' = [existing_session EXCEPT ![c] = TRUE]
  /\ UNCHANGED <<incoming_headers, add_call_headers, ret, session_id, session,
                 factoryVars, map_, map_lock_, optVars,
                 parseVars, codecVars>>

\* ----------------------------------------------------- FlightSqlSession
\* Option names and values the handler uses.  A SessionOptionValue is one
\* of seven alternatives.
OptionNames == {"k1", "k2"}
OptionValues ==
  { Value("string", <<"a">>, << >>, 0, FALSE),
    Value("bool", << >>, << >>, 0, TRUE),
    Value("int32", << >>, << >>, -1, FALSE),
    Value("int64", << >>, << >>, 1, FALSE),
    Value("float", << >>, << >>, 1, FALSE),
    Value("double", << >>, << >>, 2, FALSE),
    Value("string_list", << >>, << <<"a">>, << >> >>, 0, FALSE) }
\* The values concurrent calls write.
WrittenValues ==
  { Value("string", <<"a">>, << >>, 0, FALSE),
    Value("int32", << >>, << >>, -1, FALSE) }

\* std::shared_lock / std::unique_lock on a std::shared_mutex.
CanLockShared(l) == l.writer = 0
\* A unique_lock granted whatever the state of the mutex.
CanLockUniqueAlways(l) == TRUE
CanLockUnique(l) == l.writer = 0 /\ l.readers = {}
LockShared(l, c) == [l EXCEPT !.readers = @ \cup {c}]
LockUnique(l, c) == [l EXCEPT !.writer = c]
UnlockShared(l, c) == [l EXCEPT !.readers = @ \ {c}]
\* A unique_lock that is never released.
UnlockUniqueNever(l, c) == l
UnlockUnique(l, c) == [l EXCEPT !.writer = 0]

\* The handler calls GetSessionOption(k) on the session it holds; the call
\* then waits for the session's map_lock_.
GetSessionOption(c, k) ==
  /\ pc[c] = "handler"
  /\ session_[c] # Null
  /\ op' = [op EXCEPT ![c] = [kind |-> "Get", k |-> k, v |-> nullopt]]
  /\ pc' = [pc EXCEPT ![c] = "map_lock"]
  /\ UNCHANGED <<incoming_headers, status, middleware, session_, session_id_,
                 existing_session, add_call_headers, ret, session_id, session,
                 factoryVars, map_, map_lock_, nops, opt_ret, parseVars, codecVars>>

\* The handler calls SetSessionOption(k, v).
SetSessionOption(c, k, v) ==
  /\ pc[c] = "handler"
  /\ session_[c] # Null
  /\ op' = [op EXCEPT ![c] = [kind |-> "Set", k |-> k, v |-> v]]
  /\ pc' = [pc EXCEPT ![c] = "map_lock"]
  /\ UNCHANGED <<incoming_headers, status, middleware, session_, session_id_,
                 existing_session, add_call_headers, ret, session_id, session,
                 factoryVars, map_, map_lock_, nops, opt_ret, parseVars, codecVars>>

\* The handler calls EraseSessionOption(k).
EraseSessionOption(c, k) ==
  /\ pc[c] = "handler"
  /\ session_[c] # Null
  /\ op' = [op EXCEPT ![c] = [kind |-> "Erase", k |-> k, v |-> nullopt]]
  /\ pc' = [pc EXCEPT ![c] = "map_lock"]
  /\ UNCHANGED <<incoming_headers, status, middleware, session_, session_id_,
                 existing_session, add_call_headers, ret, session_id, session,
                 factoryVars, map_, map_lock_, nops, opt_ret, parseVars, codecVars>>

\* const std::shared_lock l(map_lock_) of GetSessionOption.
MapLockShared(c) ==
  /\ pc[c] = "map_lock"
  /\ op[c].kind = "Get"
  /\ CanLockShared(map_lock_[session_[c]])
  /\ map_lock_' = [map_lock_ EXCEPT ![session_[c]] = LockShared(@, c)]
  /\ pc' = [pc EXCEPT ![c] = "map_cs"]
  /\ UNCHANGED <<incoming_headers, status, middleware, session_, session_id_,
                 existing_session, add_call_headers, ret, session_id, session,
                 factoryVars, map_, optVars, parseVars, codecVars>>

\* const std::unique_lock l(map_lock_) of SetSessionOption and
\* EraseSessionOption.
MapLockUnique(c) ==
  /\ pc[c] = "map_lock"
  /\ op[c].kind \in {"Set", "Erase"}
  /\ CanLockUnique(map_lock_[session_[c]])
  /\ map_lock_' = [map_lock_ EXCEPT ![session_[c]] = LockUnique(@, c)]
  /\ pc' = [pc EXCEPT ![c] = "map_cs"]
  /\ UNCHANGED <<incoming_headers, status, middleware, session_, session_id_,
                 existing_session, add_call_headers, ret, session_id, session,
                 factoryVars, map_, optVars, parseVars, codecVars>>

\* A lookup that finds nothing.
MapGetAbsent(m, k) == nullopt

\* map_.count(k) ? map_.at(k) : std::nullopt
MapGet(m, k) == IF k \in DOMAIN m THEN m[k] ELSE nullopt
\* The map assigned as a whole: the other options are lost.
MapSetOnly(m, k, v) == (k :> v)

\* map_[k] = v
MapSet(m, k, v) == (k :> v) @@ m
\* An erase that clears the map.
MapEraseAll(m, k) == << >>

\* map_.erase(k)
MapErase(m, k) == [x \in DOMAIN m \ {k} |-> m[x]]

\* The body of GetSessionOption under the shared lock, and its return.
GetSessionOptionReturn(c) ==
  /\ pc[c] = "map_cs"
  /\ op[c].kind = "Get"
  /\ opt_ret' = [opt_ret EXCEPT ![c] = MapGet(map_[session_[c]], op[c].k)]
  /\ map_lock_' = [map_lock_ EXCEPT ![session_[c]] = UnlockShared(@, c)]
  /\ nops' = [nops EXCEPT ![c] = @ + 1]
  /\ pc' = [pc EXCEPT ![c] = "handler"]
  /\ UNCHANGED <<incoming_headers, status, middleware, session_, session_id_,
                 existing_session, add_call_headers, ret, session_id, session,
                 factoryVars, map_, op, parseVars, codecVars>>

\* The body of SetSessionOption under the exclusive lock, and its return.
SetSessionOptionReturn(c) ==
  /\ pc[c] = "map_cs"
  /\ op[c].kind = "Set"
  /\ map_' = [map_ EXCEPT
                ![session_[c]] = MapSet(@, op[c].k, op[c].v)]
  /\ map_lock_' = [map_lock_ EXCEPT ![session_[c]] = UnlockUnique(@, c)]
  /\ nops' = [nops EXCEPT ![c] = @ + 1]
  /\ pc' = [pc EXCEPT ![c] = "handler"]
  /\ UNCHANGED <<incoming_headers, status, middleware, session_, session_id_,
                 existing_session, add_call_headers, ret, session_id, session,
                 factoryVars, op, opt_ret, parseVars, codecVars>>

\* The body of EraseSessionOption under the exclusive lock, and its return.
EraseSessionOptionReturn(c) ==
  /\ pc[c] = "map_cs"
  /\ op[c].kind = "Erase"
  /\ map_' = [map_ EXCEPT ![session_[c]] = MapErase(@, op[c].k)]
  /\ map_lock_' = [map_lock_ EXCEPT ![session_[c]] = UnlockUnique(@, c)]
  /\ nops' = [nops EXCEPT ![c] = @ + 1]
  /\ pc' = [pc EXCEPT ![c] = "handler"]
  /\ UNCHANGED <<incoming_headers, status, middleware, session_, session_id_,
                 existing_session, add_call_headers, ret, session_id, session,
                 factoryVars, op, opt_ret, parseVars, codecVars>>

\* ------------------------------------- ParseCookieString run on its own
\* One pass through the while loop.
ParseStep ==
  /\ parse_pc = "loop"
  /\ parse_st.cur < Len(parse_s)
  /\ parse_st' = ParseIter(parse_s, parse_st)
  /\ UNCHANGED <<parse_s, parse_pc, callVars, factoryVars, map_, map_lock_,
                 optVars, codecVars>>

\* The loop condition fails: return result.
ParseReturn ==
  /\ parse_pc = "loop"
  /\ ~(parse_st.cur < Len(parse_s))
  /\ parse_pc' = "returned"
  /\ UNCHANGED <<parse_s, parse_st, callVars, factoryVars, map_, map_lock_,
                 optVars, codecVars>>

\* ------------------------- ToProto and FromProto run on their own
\* ToProto on the value given.
ToProtoCall ==
  /\ codec_pc = "value"
  /\ pb_val' = ToProto(opt_value)
  /\ codec_pc' = "message"
  /\ UNCHANGED <<opt_value, codec_ret, callVars, factoryVars, map_, map_lock_,
                 optVars, parseVars>>

\* FromProto on the message at hand: the one ToProto built, or one
\* received.
FromProtoCall ==
  /\ codec_pc = "message"
  /\ codec_ret' = FromProto(pb_val)
  /\ codec_pc' = "decoded"
  /\ UNCHANGED <<opt_value, pb_val, callVars, factoryVars, map_, map_lock_,
                 optVars, parseVars>>

\* ------------------------------------------------------- specifications
Next ==
  \E c \in Calls :
    \/ \E hdrs \in HeaderCases : StartCall(c, hdrs)
    \/ HasSession(c)
    \/ GetSession(c)
    \/ GetNewSessionLock(c)
    \/ GetNewSessionInsert(c)
    \/ SendingHeaders(c)
    \/ CallCompleted(c)

Spec == Init /\ [][Next]_vars

\* The middleware class driven through both of its constructors.
NextMw ==
  \/ Next
  \/ \E c \in Calls : \E id \in GenIds : NewExistingSessionMiddleware(c, id)

SpecMw == Init /\ [][NextMw]_vars

\* The store once an earlier call has created the session KnownId and
\* completed: the state in which later calls arrive with its cookie.
InitSession ==
  /\ pc = [c \in Calls |-> "idle"]
  /\ incoming_headers = [c \in Calls |-> << >>]
  /\ status = [c \in Calls |-> "none"]
  /\ middleware = [c \in Calls |-> FALSE]
  /\ session_ = [c \in Calls |-> Null]
  /\ session_id_ = [c \in Calls |-> << >>]
  /\ existing_session = [c \in Calls |-> FALSE]
  /\ add_call_headers = [c \in Calls |-> << >>]
  /\ ret = [c \in Calls |-> NoRet]
  /\ session_id = [c \in Calls |-> << >>]
  /\ session = [c \in Calls |-> Null]
  /\ session_store_ = (KnownId :> 1)
  /\ session_store_lock_ = Unlocked
  /\ uuid_generator_ = {KnownId}
  /\ map_ = (1 :> << >>)
  /\ map_lock_ = (1 :> Unlocked)
  /\ op = [c \in Calls |-> NoOp]
  /\ nops = [c \in Calls |-> 0]
  /\ opt_ret = [c \in Calls |-> nullopt]
  /\ parse_s = << >>
  /\ parse_st = ParseStart
  /\ parse_pc = "idle"
  /\ CodecIdle

\* Concurrent calls that arrive with the cookie of an existing session,
\* each calling one option method.
NextSession ==
  \E c \in Calls :
    \/ \E id \in GenIds : NewExistingSessionMiddleware(c, id)
    \/ \E k \in OptionNames : nops[c] = 0 /\ GetSessionOption(c, k)
    \/ \E k \in OptionNames : \E v \in WrittenValues :
         nops[c] = 0 /\ SetSessionOption(c, k, v)
    \/ \E k \in OptionNames : nops[c] = 0 /\ EraseSessionOption(c, k)
    \/ MapLockShared(c)
    \/ MapLockUnique(c)
    \/ GetSessionOptionReturn(c)
    \/ SetSessionOptionReturn(c)
    \/ EraseSessionOptionReturn(c)

SpecSession == InitSession /\ [][NextSession]_vars

\* Every user of the two locks running concurrently: calls that create a
\* session, calls that arrive with the cookie of an existing one, and one
\* option method per call.
NextLocks ==
  \E c \in Calls :
    \/ StartCall(c, << >>)
    \/ GetSession(c)
    \/ GetNewSessionLock(c)
    \/ GetNewSessionInsert(c)
    \/ \E id \in GenIds : NewExistingSessionMiddleware(c, id)
    \/ nops[c] = 0 /\ GetSessionOption(c, "k1")
    \/ \E v \in WrittenValues : nops[c] = 0 /\ SetSessionOption(c, "k1", v)
    \/ nops[c] = 0 /\ EraseSessionOption(c, "k1")
    \/ MapLockShared(c)
    \/ MapLockUnique(c)
    \/ GetSessionOptionReturn(c)
    \/ SetSessionOptionReturn(c)
    \/ EraseSessionOptionReturn(c)

SpecLocks == InitSession /\ [][NextLocks]_vars

\* One call on an existing session calling up to MaxOps option methods in
\* sequence, with values of all seven alternatives.
NextOption ==
  \/ NewExistingSessionMiddleware(1, KnownId)
  \/ \E k \in OptionNames : nops[1] < MaxOps /\ GetSessionOption(1, k)
  \/ \E k \in OptionNames : \E v \in OptionValues :
       nops[1] < MaxOps /\ SetSessionOption(1, k, v)
  \/ \E k \in OptionNames : nops[1] < MaxOps /\ EraseSessionOption(1, k)
  \/ MapLockShared(1)
  \/ MapLockUnique(1)
  \/ GetSessionOptionReturn(1)
  \/ SetSessionOptionReturn(1)
  \/ EraseSessionOptionReturn(1)

SpecOption == InitSession /\ [][NextOption]_vars

\* The calls of Spec with an identifier generator that breaks its
\* contract and may return an identifier again.
NextCollide ==
  \E c \in Calls :
    \/ \E hdrs \in HeaderCases : StartCall(c, hdrs)
    \/ HasSession(c)
    \/ GetSessionColliding(c)
    \/ GetNewSessionLock(c)
    \/ GetNewSessionInsert(c)
    \/ SendingHeaders(c)
    \/ CallCompleted(c)

SpecCollide == Init /\ [][NextCollide]_vars

\* StartCall on its own, on every header list of StartCallInputs.
NextStartCall ==
  \E c \in Calls : \E hdrs \in StartCallInputs : StartCall(c, hdrs)

SpecStartCall == Init /\ [][NextStartCall]_vars

\* ParseCookieString applied to every string of at most MaxLen characters.
ParseAtoms == {";", " ", "=", "a", "b"}
ParseInputs == UNION {[1..n -> ParseAtoms] : n \in 0..MaxLen}

InitParse ==
  /\ pc = [c \in Calls |-> "idle"]
  /\ incoming_headers = [c \in Calls |-> << >>]
  /\ status = [c \in Calls |-> "none"]
  /\ middleware = [c \in Calls |-> FALSE]
  /\ session_ = [c \in Calls |-> Null]
  /\ session_id_ = [c \in Calls |-> << >>]
  /\ existing_session = [c \in Calls |-> FALSE]
  /\ add_call_headers = [c \in Calls |-> << >>]
  /\ ret = [c \in Calls |-> NoRet]
  /\ session_id = [c \in Calls |-> << >>]
  /\ session = [c \in Calls |-> Null]
  /\ session_store_ = << >>
  /\ session_store_lock_ = Unlocked
  /\ uuid_generator_ = {}
  /\ map_ = << >>
  /\ map_lock_ = << >>
  /\ op = [c \in Calls |-> NoOp]
  /\ nops = [c \in Calls |-> 0]
  /\ opt_ret = [c \in Calls |-> nullopt]
  /\ parse_s \in ParseInputs
  /\ parse_st = ParseStart
  /\ parse_pc = "loop"
  /\ CodecIdle

NextParse == ParseStep \/ ParseReturn

SpecParse == InitParse /\ [][NextParse]_vars

\* The SessionOptionValues given to ToProto: values of each of the seven
\* alternatives, the empty string and the empty list among them.
CodecStrings == {<< >>, <<"a">>, <<"a", "b">>, <<"b", "a">>}
CodecValues ==
  {Value("string", s, << >>, 0, FALSE) : s \in CodecStrings}
    \cup {Value("bool", << >>, << >>, 0, b) : b \in BOOLEAN}
    \cup {Value("int32", << >>, << >>, n, FALSE) :
            n \in {-2147483647, -1, 0, 2147483647}}
    \cup {Value("int64", << >>, << >>, n, FALSE) :
            n \in {-2147483647, -1, 0, 2147483647}}
    \cup {Value("float", << >>, << >>, n, FALSE) : n \in {0, 1}}
    \cup {Value("double", << >>, << >>, n, FALSE) : n \in {0, 2}}
    \cup {Value("string_list", << >>, l, 0, FALSE) :
            l \in {<< >>, << << >> >>, << <<"a">> >>,
                   << <<"a">>, <<"b">> >>, << <<"a", "b">>, << >> >>}}

\* The messages FromProto receives from a peer: the oneof unset, or one
\* of its cases set with a content.
CodecMessages ==
  {PbDefault}
    \cup {[PbDefault EXCEPT !.option_value_case = "kStringValue",
                            !.string_value = s] : s \in CodecStrings}
    \cup {[PbDefault EXCEPT !.option_value_case = "kBoolValue",
                            !.bool_value = b] : b \in BOOLEAN}
    \cup {[PbDefault EXCEPT !.option_value_case = "kInt32Value",
                            !.int32_value = n] : n \in {-1, 0, 2147483647}}
    \cup {[PbDefault EXCEPT !.option_value_case = "kInt64Value",
                            !.int64_value = n] : n \in {-1, 0, 2147483647}}
    \cup {[PbDefault EXCEPT !.option_value_case = "kFloatValue",
                            !.float_value = n] : n \in {0, 1}}
    \cup {[PbDefault EXCEPT !.option_value_case = "kDoubleValue",
                            !.double_value = n] : n \in {0, 2}}
    \cup {[PbDefault EXCEPT !.option_value_case = "kStringListValue",
                            !.string_list_value = l] :
            l \in {<< >>, << <<"a">> >>, << <<"a">>, <<"b">> >>}}

\* A value to encode and decode again, or a message received to decode.
InitCodec ==
  /\ pc = [c \in Calls |-> "idle"]
  /\ incoming_headers = [c \in Calls |-> << >>]
  /\ status = [c \in Calls |-> "none"]
  /\ middleware = [c \in Calls |-> FALSE]
  /\ session_ = [c \in Calls |-> Null]
  /\ session_id_ = [c \in Calls |-> << >>]
  /\ existing_session = [c \in Calls |-> FALSE]
  /\ add_call_headers = [c \in Calls |-> << >>]
  /\ ret = [c \in Calls |-> NoRet]
  /\ session_id = [c \in Calls |-> << >>]
  /\ session = [c \in Calls |-> Null]
  /\ session_store_ = << >>
  /\ session_store_lock_ = Unlocked
  /\ uuid_generator_ = {}
  /\ map_ = << >>
  /\ map_lock_ = << >>
  /\ op = [c \in Calls |-> NoOp]
  /\ nops = [c \in Calls |-> 0]
  /\ opt_ret = [c \in Calls |-> nullopt]
  /\ parse_s = << >>
  /\ parse_st = ParseStart
  /\ parse_pc = "idle"
  /\ codec_ret = NoResult
  /\ \/ /\ codec_pc = "value"
        /\ opt_value \in CodecValues
        /\ pb_val = PbDefault
     \/ /\ codec_pc = "message"
        /\ opt_value = nullopt
        /\ pb_val \in CodecMessages

NextCodec == ToProtoCall \/ FromProtoCall

SpecCodec == InitCodec /\ [][NextCodec]_vars

\* =============================================================== claims
\* The states of the middleware of call c, told apart by where its session
\* came from: GetNewSession's local session is set only by a GetSession of
\* this call that created one.
Unbound(c) == middleware[c] /\ session_[c] = Null
BoundNew(c) == middleware[c] /\ session_[c] # Null /\ session_[c] = session[c]
BoundExisting(c) ==
  middleware[c] /\ session_[c] # Null /\ session[c] = Null

\* The cookie grammar of the specification: split on "; ", drop the tokens
\* without "=", cut the others at their first "=".
RECURSIVE RefSplit(_)
RefSplit(v) ==
  LET e == Find(v, list_sep, 0)
  IN IF e = npos THEN <<v>>
     ELSE <<Substr(v, 0, e)>> \o RefSplit(Substr(v, e + Len(list_sep), npos))

RefHasPairSep(tok) == Find(tok, pair_sep, 0) # npos
RefPair(tok) ==
  LET e == Find(tok, pair_sep, 0)
  IN <<Substr(tok, 0, e), Substr(tok, e + Len(pair_sep), npos)>>
RefParse(v) ==
  LET toks == SelectSeq(RefSplit(v), RefHasPairSep)
  IN [i \in 1..Len(toks) |-> RefPair(toks[i])]

\* The resolution of the session cookie of the specification: the first
\* header value with a session cookie pair decides, by its last such pair;
\* an empty value met on the way is an error.
RefIsSessionPair(p) == p[1] = kSessionCookieName
RECURSIVE RefResolve(_)
RefResolve(hdrs) ==
  IF hdrs = << >> THEN [invalid |-> FALSE, session_id |-> << >>]
  ELSE LET mine == SelectSeq(RefParse(Head(hdrs)), RefIsSessionPair)
       IN IF \E i \in 1..Len(mine) : mine[i][2] = << >>
            THEN [invalid |-> TRUE, session_id |-> << >>]
            ELSE IF mine # << >>
                   THEN [invalid |-> FALSE, session_id |-> mine[Len(mine)][2]]
                   ELSE RefResolve(Tail(hdrs))

\* StartCall of call c is over (it returned, or it will never return).
Started(c) == pc[c] # "idle"

\* Call c has announced identifier id in a set-cookie header.
Announced(c, id) ==
  \E i \in 1..Len(add_call_headers[c]) :
    add_call_headers[c][i] = <<"set-cookie", SessionCookie(id)>>

\* C1: session affinity.  When call a, started without session cookie, has
\* created a session by GetSession and announced its identifier X, a
\* StartCall of another call b whose header carries the session cookie X
\* succeeds with a middleware holding the session of a.
C1_SessionAffinity ==
  [][\A a, b \in Calls :
       ( /\ a # b
         /\ ~existing_session[a]
         /\ session_[a] # Null
         /\ Announced(a, session_id_[a])
         /\ ~Started(b) /\ Started(b)'
         /\ RefResolve(incoming_headers'[b]).session_id = session_id_[a] )
       => ( /\ status'[b] = "OK"
            /\ middleware'[b]
            /\ session_'[b] = session_[a] )]_vars

\* SendingHeaders has run for call c.
HeadersSent(c) == pc[c] \in {"sent", "done"}

\* C2: once SendingHeaders has run, the response carries a header of the
\* middleware if and only if the middleware is BoundNew; an Unbound one and
\* a BoundExisting one (whatever GetSession calls it served) added nothing.
C2_CookieOnlyForNewSession ==
  \A c \in Calls :
    /\ HeadersSent(c) =>
         /\ (add_call_headers[c] # << >>) <=> BoundNew(c)
         /\ \A i \in 1..Len(add_call_headers[c]) :
              add_call_headers[c][i][1] = "set-cookie"
    /\ ~HeadersSent(c) => add_call_headers[c] = << >>

\* A BoundNew call has announced its session while a BoundExisting call,
\* after a GetSession, has sent its headers without any.
C2_Witness ==
  \E a, b \in Calls :
    /\ HeadersSent(a) /\ BoundNew(a) /\ add_call_headers[a] # << >>
    /\ HeadersSent(b) /\ BoundExisting(b) /\ ret[b].op = "GetSession"
    /\ add_call_headers[b] = << >>

\* An Unbound call has sent its headers.
C2_WitnessUnbound ==
  \E c \in Calls : HeadersSent(c) /\ Unbound(c)

InGetNewSession(c) == pc[c] \in {"gns_lock", "gns_cs"}

\* C4: GetSession is idempotent.  A middleware that holds a session keeps
\* it and its identifier, returns it from every GetSession, and never
\* enters GetNewSession again; the store changes only by the insertion of
\* a middleware that held no session, which holds one afterwards.
C4_GetSessionIdempotent ==
  [][/\ \A c \in Calls :
          session_[c] # Null =>
            /\ session_'[c] = session_[c]
            /\ session_id_'[c] = session_id_[c]
            /\ session'[c] = session[c]
            /\ ~InGetNewSession(c)'
            /\ (ret'[c] # ret[c] /\ ret'[c].op = "GetSession")
                 => ret'[c].session = session_[c]
     /\ session_store_' # session_store_ =>
          \E c \in Calls :
            /\ pc[c] = "gns_cs" /\ pc'[c] = "handler"
            /\ session_[c] = Null /\ session_'[c] # Null
            /\ ~existing_session[c]
            /\ Cardinality(DOMAIN session_store_')
                 = Cardinality(DOMAIN session_store_) + 1]_vars

\* A BoundNew middleware and a BoundExisting one have each answered a
\* GetSession with the session they hold.
C4_Witness ==
  \E a, b \in Calls :
    /\ BoundExisting(b) /\ ret[b] = [op |-> "GetSession",
                                     session |-> session_[b]]
    /\ BoundNew(a) /\ ret[a].op = "GetSession" /\ pc[a] = "handler"
    /\ Cardinality(DOMAIN session_store_) = 1

\* C5: concurrent creations.  Calls that have drawn an identifier in
\* GetNewSession hold pairwise different identifiers and pairwise different
\* sessions, and once a creation is complete the store maps the creator's
\* identifier to the session returned to it.
C5_ConcurrentCreateDistinct ==
  /\ \A a, b \in Calls :
       (a # b /\ session[a] # Null /\ session[b] # Null) =>
         /\ session_id_[a] # session_id_[b]
         /\ session[a] # session[b]
  /\ \A c \in Calls :
       BoundNew(c) =>
         /\ session_id_[c] \in DOMAIN session_store_
         /\ session_store_[session_id_[c]] = session_[c]

\* Every call has created a session, and the store holds them all.
C5_Witness ==
  /\ \A c \in Calls : BoundNew(c) /\ ret[c].op = "GetSession"
  /\ Cardinality(DOMAIN session_store_) = NCalls

\* Two creations are under way at once: one holds the lock, one waits.
C5_WitnessOverlap ==
  \E a, b \in Calls : pc[a] = "gns_cs" /\ pc[b] = "gns_lock"

\* C6: a StartCall whose headers resolve to an identifier that is not a
\* key of the store fails with InvalidArgument.
C6_UnknownIdRejected ==
  \A c \in Calls :
    LET r == RefResolve(incoming_headers[c])
    IN (Started(c) /\ ~r.invalid /\ r.session_id # << >>
          /\ r.session_id \notin DOMAIN session_store_)
         => status[c] = "Invalid"

\* C7: a StartCall that scans a session cookie pair of empty value fails
\* with InvalidArgument.
C7_EmptyValueRejected ==
  \A c \in Calls :
    (Started(c) /\ RefResolve(incoming_headers[c]).invalid)
      => status[c] = "Invalid"

\* C8 is about a StartCall that fails.  No StartCall does: on no header
\* list of StartCallInputs does a call return Status::Invalid.
NoStartCallFails == \A c \in Calls : pc[c] # "failed" /\ status[c] # "Invalid"

\* C9: what ParseCookieString returns is the parse of the cookie grammar.
C9_ParseMatchesReference ==
  parse_pc = "returned" => parse_st.result = RefParse(parse_s)

\* C10: the candidate identifier StartCall settles on is the value of the
\* last session cookie pair of the first header value that has one.
C10_FirstHeaderLastPair ==
  \A c \in Calls :
    LET r == RefResolve(incoming_headers[c])
    IN (Started(c) /\ ~r.invalid) => session_id[c] = r.session_id

\* Call c has returned from the one option method it called.
Returned(c) == nops[c] = 1 /\ pc[c] = "handler"

\* Calls c and d, bound to the same existing session, have each returned
\* from a SetSessionOption, on different names, and no other call has
\* changed that session.
TwoSetsOnDifferentNames(c, d) ==
  /\ c # d
  /\ BoundExisting(c) /\ BoundExisting(d)
  /\ session_[c] = session_[d]
  /\ Returned(c) /\ Returned(d)
  /\ op[c].kind = "Set" /\ op[d].kind = "Set"
  /\ op[c].k # op[d].k
  /\ \A e \in Calls \ {c, d} : session_[e] = session_[c] => nops[e] = 0

\* C11: no lost update.  When two concurrent calls bound to the same
\* existing session have each set an option of a different name, both
\* names are present on the session with the values written, whatever the
\* interleaving was.
C11_NoLostUpdate ==
  \A c, d \in Calls :
    TwoSetsOnDifferentNames(c, d)
      => LET m == map_[session_[c]]
         IN /\ op[c].k \in DOMAIN m /\ m[op[c].k] = op[c].v
            /\ op[d].k \in DOMAIN m /\ m[op[d].k] = op[d].v

C11_Witness ==
  \E c, d \in Calls :
    /\ TwoSetsOnDifferentNames(c, d)
    /\ op[c].v # op[d].v
    /\ DOMAIN map_[session_[c]] = {op[c].k, op[d].k}

\* The two SetSessionOption calls overlap: one holds the session's lock
\* while the other waits for it.
C11_WitnessOverlap ==
  \E c, d \in Calls :
    /\ session_[c] # Null /\ session_[c] = session_[d]
    /\ op[c].kind = "Set" /\ op[d].kind = "Set" /\ op[c].k # op[d].k
    /\ pc[c] = "map_cs" /\ pc[d] = "map_lock"

\* The step in which call c returns from the option method of the given
\* kind.
Returns(c, kind) ==
  pc[c] = "map_cs" /\ op[c].kind = kind /\ pc'[c] = "handler"

\* The entry of name k in the option map m: its value, or nullopt when the
\* name is absent.
Entry(m, k) == IF k \in DOMAIN m THEN m[k] ELSE nullopt

\* C12: option round trip.  A returning SetSessionOption(k, v) leaves v as
\* the entry of k, a returning EraseSessionOption(k) leaves k absent, no
\* other step changes the entry of any name, and a returning
\* GetSessionOption(k) returns the entry of k, absent when there is none:
\* so a Get returns the value of the last Set of its name, of whichever of
\* the seven alternatives, and absent for a name never set or erased since.
C12_OptionRoundTrip ==
  [][\A c \in Calls :
       LET s == session_[c]
       IN /\ Returns(c, "Set") => Entry(map_'[s], op[c].k) = op[c].v
          /\ Returns(c, "Erase") => Entry(map_'[s], op[c].k) = nullopt
          /\ Returns(c, "Get") => opt_ret'[c] = Entry(map_[s], op[c].k)
          /\ \A k \in OptionNames :
               (s # Null /\ Entry(map_'[s], k) # Entry(map_[s], k))
                 => \E d \in Calls :
                      /\ session_[d] = s /\ op[d].k = k
                      /\ Returns(d, "Set") \/ Returns(d, "Erase")]_vars

\* A Get has returned the string list that the Set before it stored.
C12_Witness ==
  /\ pc[1] = "handler" /\ nops[1] = 2 /\ op[1].kind = "Get"
  /\ opt_ret[1].kind = "string_list"
  /\ opt_ret[1].list = << <<"a">>, << >> >>

\* A Get has returned absent for a name the session does not hold, while
\* it holds an option of another name.
C12_WitnessAbsent ==
  /\ pc[1] = "handler" /\ nops[1] = MaxOps /\ op[1].kind = "Get"
  /\ opt_ret[1] = nullopt
  /\ DOMAIN map_[session_[1]] = {"k1"} /\ op[1].k = "k2"

\* C13: no aliasing in the store.  Every identifier of the store maps to
\* one allocated session, and no session is registered under two
\* identifiers.
C13_StoreNoAliasing ==
  /\ \A id \in DOMAIN session_store_ :
       session_store_[id] # Null /\ session_store_[id] \in DOMAIN map_
  /\ \A id1, id2 \in DOMAIN session_store_ :
       id1 # id2 => session_store_[id1] # session_store_[id2]

\* Two sessions are registered under two identifiers, and every call holds
\* the one it created.
C13_Witness ==
  \E id1, id2 \in DOMAIN session_store_ :
    /\ id1 # id2
    /\ session_store_[id1] # session_store_[id2]
    /\ \A c \in Calls : session_[c] # Null

\* The step in which call c, holding the store lock with an identifier
\* that is already a key of the store, leaves GetNewSession.
CollidingInsert(c) ==
  /\ pc[c] = "gns_cs"
  /\ session_id_[c] \in DOMAIN session_store_
  /\ pc'[c] # "gns_cs"

\* C14: a creation whose generated identifier is already a key of the
\* store returns no session, and the store keeps the session registered
\* under that identifier.
C14_CollisionIsInternalError ==
  [][\A c \in Calls :
       CollidingInsert(c)
         => /\ session_'[c] = Null
            /\ ret'[c].session = Null
            /\ session_store_' = session_store_]_vars

\* Call c holds the store lock, or the lock of some session.
HoldsStoreLock(c) ==
  session_store_lock_.writer = c \/ c \in session_store_lock_.readers
HoldsSessionLock(c, s) ==
  map_lock_[s].writer = c \/ c \in map_lock_[s].readers

\* Call c, if inside an operation, can take its next step now, or waits
\* for a lock whose holder is inside its critical section.
CanProceed(c) ==
  /\ pc[c] = "gns_cs" => ENABLED GetNewSessionInsert(c)
  /\ pc[c] = "map_cs" =>
       ENABLED (\/ GetSessionOptionReturn(c)
                \/ SetSessionOptionReturn(c)
                \/ EraseSessionOptionReturn(c))
  /\ pc[c] = "gns_lock" =>
       \/ ENABLED GetNewSessionLock(c)
       \/ \E d \in Calls \ {c} : pc[d] = "gns_cs" /\ HoldsStoreLock(d)
  /\ pc[c] = "map_lock" =>
       \/ ENABLED (MapLockShared(c) \/ MapLockUnique(c))
       \/ \E d \in Calls \ {c} :
            pc[d] = "map_cs" /\ HoldsSessionLock(d, session_[c])

\* C15: lock discipline and deadlock freedom.  No call holds the store
\* lock and a session's lock together; the store lock is held exclusively
\* only by a call inside GetNewSession; a session's lock is held only by a
\* call inside an option method of that session; and every call inside an
\* operation can take its next step, or waits for a lock whose holder can
\* take its own, so no set of calls waits on itself.
C15_LockDiscipline ==
  /\ \A c \in Calls : \A s \in DOMAIN map_lock_ :
       ~(HoldsStoreLock(c) /\ HoldsSessionLock(c, s))
  /\ \A c \in Calls : HoldsStoreLock(c) =>
       pc[c] = "gns_cs" /\ session_store_lock_.writer = c
  /\ \A c \in Calls : \A s \in DOMAIN map_lock_ :
       HoldsSessionLock(c, s) => pc[c] = "map_cs" /\ session_[c] = s
  /\ session_store_lock_.writer \in Calls \cup {0}
  /\ \A c \in Calls : CanProceed(c)

\* One call holds the store lock inside GetNewSession while another holds
\* a session's lock inside SetSessionOption.
C15_Witness ==
  \E c, d \in Calls :
    /\ pc[c] = "gns_cs" /\ HoldsStoreLock(c)
    /\ pc[d] = "map_cs" /\ op[d].kind = "Set"
    /\ HoldsSessionLock(d, session_[d])

\* One call waits for a session's lock that another holds.
C15_WitnessWaiting ==
  \E c, d \in Calls :
    /\ pc[c] = "map_lock" /\ ~ENABLED (MapLockShared(c) \/ MapLockUnique(c))
    /\ pc[d] = "map_cs" /\ HoldsSessionLock(d, session_[c])

\* C16: the wire codec.  FromProto of a message whose oneof is unset is an
\* error that carries no value, and FromProto of the message ToProto built
\* from a value succeeds with a value of the same alternative and content,
\* for each of the seven alternatives.
C16_WireCodec ==
  codec_pc = "decoded" =>
    /\ pb_val.option_value_case = "OPTION_VALUE_NOT_SET"
         => ~codec_ret.ok /\ codec_ret.val = nullopt
    /\ opt_value # nullopt
         => codec_ret.ok /\ codec_ret.val = opt_value

\* A list of strings, one of them empty, has been encoded and decoded.
C16_Witness ==
  /\ codec_pc = "decoded"
  /\ opt_value.kind = "string_list" /\ Len(opt_value.list) = 2
  /\ pb_val.option_value_case = "kStringListValue"
  /\ codec_ret.ok

\* A message whose oneof is unset has been decoded.
C16_WitnessUnset ==
  /\ codec_pc = "decoded"
  /\ pb_val.option_value_case = "OPTION_VALUE_NOT_SET"
  /\ ~codec_ret.ok

\* The empty list has been encoded and decoded: its message has the list
\* case set and no values.
C16_WitnessEmptyList ==
  /\ codec_pc = "decoded"
  /\ opt_value = Value("string_list", << >>, << >>, 0, FALSE)
  /\ pb_val.option_value_case = "kStringListValue"

\* C17: ParseCookieString terminates.  Every iteration of its loop moves
\* the scan position forward, so the loop reaches the end of the value.
C17_ParseTerminates ==
  (parse_pc = "loop" /\ parse_st.cur < Len(parse_s))
    => ParseIter(parse_s, parse_st).cur > parse_st.cur

\* The headers carry no session cookie pair.
NoSessionPair(hdrs) ==
  LET r == RefResolve(hdrs) IN ~r.invalid /\ r.session_id = << >>

\* C18: lazy creation.  A StartCall whose headers carry no session cookie
\* pair succeeds with an Unbound middleware (HasSession false) and leaves
\* the store as it is; the store changes only in the step in which a
\* GetSession of a middleware that holds no session inserts the session
\* it created, never in a step of HasSession, SendingHeaders or
\* CallCompleted.
C18_LazyCreation ==
  [][/\ \A c \in Calls :
          (pc[c] = "idle" /\ pc'[c] # "idle"
             /\ NoSessionPair(incoming_headers'[c]))
            => /\ status'[c] = "OK"
               /\ middleware'[c] /\ session_'[c] = Null
               /\ session_store_' = session_store_
     /\ session_store_' # session_store_
          => \E c \in Calls :
               /\ pc[c] = "gns_cs" /\ pc'[c] = "handler"
               /\ middleware[c] /\ session_[c] = Null
               /\ session_'[c] # Null
               /\ DOMAIN session_store_' =
                    DOMAIN session_store_ \cup {session_id_[c]}]_vars

\* C19: EraseSessionOption(k) always returns, and leaves the session
\* without k and with every other option as it was; when k was absent the
\* map is unchanged.
C19_EraseFrame ==
  [][\A c \in Calls :
       LET s == session_[c]
           k == op[c].k
       IN /\ (pc[c] = "map_cs" /\ op[c].kind = "Erase")
               => ENABLED EraseSessionOptionReturn(c)
          /\ Returns(c, "Erase")
               => /\ DOMAIN map_'[s] = DOMAIN map_[s] \ {k}
                  /\ \A j \in DOMAIN map_'[s] : map_'[s][j] = map_[s][j]
                  /\ k \notin DOMAIN map_[s] => map_'[s] = map_[s]]_vars

\* An EraseSessionOption has returned on a session that still holds the
\* option of the other name.
C19_Witness ==
  \E c \in Calls :
    /\ pc[c] = "handler" /\ op[c].kind = "Erase" /\ nops[c] = MaxOps
    /\ DOMAIN map_[session_[c]] = OptionNames \ {op[c].k}

\* Call c is inside the critical section of a writing option method of
\* session s.
Writing(c, s) ==
  pc[c] = "map_cs" /\ session_[c] = s /\ op[c].kind \in {"Set", "Erase"}

\* C20: last exclusive writer wins.  The writers of a session are
\* serialized by its lock: a call inside SetSessionOption or
\* EraseSessionOption holds the lock as its only holder, and no other call
\* is inside an option method of that session.  The entry of a name
\* changes only in the step in which the writer holding the lock returns,
\* and a returning SetSessionOption leaves exactly its own value: so the
\* value read afterwards is the value of the Set that held the lock last.
C20_LastWriterWins ==
  [][/\ \A c \in Calls : \A s \in DOMAIN map_ :
          Writing(c, s)
            => /\ map_lock_[s] = [writer |-> c, readers |-> {}]
               /\ \A d \in Calls \ {c} :
                    ~(pc[d] = "map_cs" /\ session_[d] = s)
     /\ \A s \in DOMAIN map_ : \A k \in OptionNames :
          Entry(map_'[s], k) # Entry(map_[s], k)
            => \E c \in Calls :
                 /\ Writing(c, s) /\ op[c].k = k
                 /\ map_lock_[s].writer = c
                 /\ pc'[c] = "handler"
                 /\ map_lock_'[s].writer = 0
                 /\ Entry(map_'[s], k) =
                      IF op[c].kind = "Set" THEN op[c].v ELSE nullopt]_vars

\* Two calls on one session have each set the same name, to different
\* values, and the session holds that name.
C20_Witness ==
  \E c, d \in Calls :
    /\ c # d /\ session_[c] # Null /\ session_[c] = session_[d]
    /\ Returned(c) /\ Returned(d)
    /\ op[c].kind = "Set" /\ op[d].kind = "Set"
    /\ op[c].k = op[d].k /\ op[c].v # op[d].v
    /\ op[c].k \in DOMAIN map_[session_[c]]

\* The two writers overlap: one is inside SetSessionOption, the other
\* waits for the lock with a different value for the same name.
C20_WitnessOverlap ==
  \E c, d \in Calls :
    /\ session_[c] # Null /\ session_[c] = session_[d]
    /\ pc[c] = "map_cs" /\ pc[d] = "map_lock"
    /\ op[c].kind = "Set" /\ op[d].kind = "Set"
    /\ op[c].k = op[d].k /\ op[c].v # op[d].v

\* C21: store monotonicity.  An identifier registered in the store stays
\* registered and keeps its session, whatever step is taken.
C21_StoreMonotonic ==
  [][\A id \in DOMAIN session_store_ :
       /\ id \in DOMAIN session_store_'
       /\ session_store_'[id] = session_store_[id]]_vars

\* The middleware of call c exists: StartCall has built it and
\* CallCompleted has not ended the call.
Live(c) == middleware[c] /\ pc[c] # "done"

\* C22: middleware and store agree.  Every live middleware that holds a
\* session holds a non-empty identifier that is a key of the store, and
\* the store maps that identifier to the session the middleware holds.
C22_MiddlewareStoreConsistent ==
  \A c \in Calls :
    (Live(c) /\ HasSessionValue(c))
      => /\ session_id_[c] # << >>
         /\ session_id_[c] \in DOMAIN session_store_
         /\ session_store_[session_id_[c]] = session_[c]

\* C23: session isolation.  A session is empty when it is allocated and
\* still empty when it is registered, and a returning SetSessionOption or
\* EraseSessionOption of a call bound to one identifier leaves the option
\* map of every session registered under another identifier as it was.
C23_SessionIsolation ==
  [][/\ \A s \in DOMAIN map_' \ DOMAIN map_ : map_'[s] = << >>
     /\ \A id \in DOMAIN session_store_' \ DOMAIN session_store_ :
          map_'[session_store_'[id]] = << >>
     /\ \A c \in Calls :
          (Returns(c, "Set") \/ Returns(c, "Erase"))
            => \A id \in DOMAIN session_store_ \ {session_id_[c]} :
                 map_'[session_store_[id]] = map_[session_store_[id]]]_vars

\* Two sessions are registered under two identifiers, each held by a call;
\* a SetSessionOption through one has returned, and the other session is
\* empty.
C23_Witness ==
  \E c, d \in Calls :
    /\ session_[c] # Null /\ session_[d] # Null
    /\ session_id_[c] # session_id_[d]
    /\ {session_id_[c], session_id_[d]} \subseteq DOMAIN session_store_
    /\ Returned(c) /\ op[c].kind = "Set"
    /\ map_[session_[c]] # << >>
    /\ map_[session_[d]] = << >>

\* Writers of two sessions are inside their critical sections at once.
C23_WitnessConcurrent ==
  \E c, d \in Calls :
    /\ session_[c] # session_[d]
    /\ Writing(c, session_[c]) /\ Writing(d, session_[d])

====
